---------------------------- MODULE Spec2Model ----------------------------
(***************************************************************************)
(* Model of the study-plan generator service (src/app.js): the            *)
(* POST /generate-plan handler with its sequential provider loop, the     *)
(* echo removal and length check, the template fallback generator and the *)
(* Firestore write.                                                        *)
(*                                                                         *)
(* Text is modelled by TLA+ strings; Len, \o and SubSeq act on them the    *)
(* way String.length, + and String.substring do in JavaScript.            *)
(***************************************************************************)
EXTENDS Integers, Sequences, FiniteSets, TLC

(***************************************************************************)
(* JavaScript string primitives used by the code.                          *)
(***************************************************************************)

\* s.charAt(i - 1)
CharAt(s, i) == SubSeq(s, i, i)

\* The characters String.prototype.trim removes (those the inputs can hold).
WhiteSpace == {" ", "\t", "\n", "\r", "\f"}

\* The characters the regular expression class \d matches.
Digits == {"0", "1", "2", "3", "4", "5", "6", "7", "8", "9"}

\* s.indexOf(p) + 1: the first position where p occurs in s, and 0 when
\* there is none.
IndexOf(s, p) ==
    LET last == Len(s) - Len(p) + 1
        At(i) == SubSeq(s, i, i + Len(p) - 1) = p
    IN  IF \E i \in 1..last : At(i)
        THEN CHOOSE i \in 1..last : At(i) /\ \A j \in 1..(i - 1) : ~At(j)
        ELSE 0

\* s.includes(p)
Includes(s, p) == IndexOf(s, p) # 0

\* s.replace(p, '') with a string pattern p: only the first occurrence goes.
ReplaceFirstWithEmpty(s, p) ==
    LET i == IndexOf(s, p)
    IN  IF i = 0 THEN s
        ELSE SubSeq(s, 1, i - 1) \o SubSeq(s, i + Len(p), Len(s))

\* The first position from i on that holds no white space (Len(s) + 1 if none).
RECURSIVE SkipSpace(_, _)
SkipSpace(s, i) ==
    IF i > Len(s) \/ CharAt(s, i) \notin WhiteSpace THEN i ELSE SkipSpace(s, i + 1)

\* The last position up to i that holds no white space (0 if none).
RECURSIVE SkipSpaceBack(_, _)
SkipSpaceBack(s, i) ==
    IF i < 1 \/ CharAt(s, i) \notin WhiteSpace THEN i ELSE SkipSpaceBack(s, i - 1)

\* s.trim()
Trim(s) == SubSeq(s, SkipSpace(s, 1), SkipSpaceBack(s, Len(s)))

(***************************************************************************)
(* JavaScript values of the request body's fields: a field of the parsed   *)
(* JSON body is absent (undefined), a string or a number; NaN is the        *)
(* number parseInt gives when it finds no digits.                          *)
(***************************************************************************)
Undefined == [t |-> "undefined"]
Str(s) == [t |-> "string", s |-> s]
Num(n) == [t |-> "number", n |-> n]
NaN == [t |-> "NaN"]

IsString(v) == v.t = "string"

\* ToBoolean(v): what !v tests.
Truthy(v) ==
    CASE v.t = "undefined" -> FALSE
      [] v.t = "string"    -> v.s # ""
      [] v.t = "number"    -> v.n # 0
      [] v.t = "NaN"       -> FALSE

\* ToString(v): what `${v}` interpolates.
JsToString(v) ==
    CASE v.t = "undefined" -> "undefined"
      [] v.t = "string"    -> v.s
      [] v.t = "number"    -> ToString(v.n)

\* a || b
Or(a, b) == IF Truthy(a) THEN a ELSE b

(***************************************************************************)
(* generateFallbackPlan (src/app.js:30-95).                                *)
(***************************************************************************)

\* duration.match(/\d+/): the leftmost maximal run of digits, or null.
Null == [t |-> "null"]
MatchDigits(s) ==
    LET at == {i \in 1..Len(s) : CharAt(s, i) \in Digits}
    IN  IF at = {} THEN Null
        ELSE LET lo == CHOOSE i \in at : \A j \in at : i <= j
                 hi == CHOOSE k \in lo..Len(s) :
                          /\ \A j \in lo..k : j \in at
                          /\ (k + 1) \notin at
             IN  Str(SubSeq(s, lo, hi))

DigitValue(c) == CHOOSE n \in 0..9 : ToString(n) = c

RECURSIVE DecimalValue(_)
DecimalValue(ds) ==
    IF ds = "" THEN 0
    ELSE 10 * DecimalValue(SubSeq(ds, 1, Len(ds) - 1)) + DigitValue(CharAt(ds, Len(ds)))

\* parseInt(m) for m the result of match: the array [run] is converted to the
\* string run and parsed in base 10; null is converted to "null", which has no
\* leading digits, and gives NaN.
ParseInt(m) == IF m = Null THEN NaN ELSE Num(DecimalValue(m.s))

\* const durationWeeks = parseInt(duration.match(/\d+/)) || 4;
DefaultWeeks == 4
durationWeeks(duration) == Or(ParseInt(MatchDigits(duration.s)), Num(DefaultWeeks)).n

\* Math.round in the place of Math.ceil.
RoundSeventyPercent(w) == (7 * w + 5) \div 10

\* Math.ceil(w * 0.7). The double nearest 0.7 lies below 7/10 by less than
\* 2^-54. When 7w/10 is an integer N, the exact product is just below N and
\* rounds to a double that is at most N and far above N - 1; otherwise 7w/10
\* is at least 1/10 away from every integer and the rounding cannot cross
\* one. For the integers w the digits give, the result is the exact ceiling.
CeilSeventyPercent(w) == (7 * w + 9) \div 10

\* ${durationWeeks > 2 ? '-2' : ''}
Phase1Suffix(w) == IF w > 2 THEN "-2" ELSE ""

\* ${durationWeeks > 2 ? '3-' + Math.ceil(durationWeeks * 0.7) : '2'}
Phase2Weeks(w) == IF w > 2 THEN "3-" \o ToString(CeilSeventyPercent(w)) ELSE "2"

\* Phase 3 guarded like Phase 2: a single week when the plan is short.
Phase3WeeksGuarded(w) ==
    IF w > 2 THEN ToString(CeilSeventyPercent(w) + 1) \o "-" \o ToString(w - 1)
    ELSE ToString(w)

\* ${Math.ceil(durationWeeks * 0.7) + 1}-${durationWeeks - 1}
Phase3Weeks(w) == ToString(CeilSeventyPercent(w) + 1) \o "-" \o ToString(w - 1)

\* ${durationWeeks > 2 ? 'Week 3: ...\n' : ''}${durationWeeks > 3 ? 'Week 4: ...\n' : ''}
MilestoneWeek3 == "Week 3: Apply knowledge to practical scenarios\n"
MilestoneWeek4 == "Week 4: Integrate advanced concepts\n"
ExtraMilestones(w) ==
    (IF w > 2 THEN MilestoneWeek3 ELSE "") \o (IF w > 3 THEN MilestoneWeek4 ELSE "")

\* duration.match is not a function unless duration is a string: the call
\* throws a TypeError before anything is rendered.
FallbackThrows(duration) == ~IsString(duration)

generateFallbackPlan(subject, level, duration, goals) ==
    LET w == durationWeeks(duration)
    IN  "Study Plan for " \o JsToString(subject) \o " (" \o JsToString(level) \o " Level)\n"
        \o "Duration: " \o JsToString(duration) \o "\n"
        \o "Goals: " \o JsToString(goals) \o "\n"
        \o "\n"
        \o "=== STUDY PLAN OVERVIEW ===\n"
        \o "\n"
        \o "Phase 1: Foundation (Week 1" \o Phase1Suffix(w) \o ")\n"
        \o "- Review fundamental concepts and terminology\n"
        \o "- Gather study materials and resources\n"
        \o "- Establish daily study routine (1-2 hours)\n"
        \o "- Complete basic exercises and assessments\n"
        \o "\n"
        \o "Phase 2: Core Learning (Week " \o Phase2Weeks(w) \o ")\n"
        \o "- Deep dive into main topics and concepts\n"
        \o "- Practice problem-solving techniques\n"
        \o "- Create summary notes and mind maps\n"
        \o "- Regular self-assessment and progress tracking\n"
        \o "\n"
        \o "Phase 3: Advanced Application (Week " \o Phase3Weeks(w) \o ")\n"
        \o "- Explore complex topics and real-world applications\n"
        \o "- Work on challenging problems and case studies\n"
        \o "- Connect concepts across different areas\n"
        \o "- Prepare for practical implementation\n"
        \o "\n"
        \o "Phase 4: Review & Mastery (Final Week)\n"
        \o "- Comprehensive review of all materials\n"
        \o "- Practice tests and mock examinations\n"
        \o "- Identify and address knowledge gaps\n"
        \o "- Final preparation and confidence building\n"
        \o "\n"
        \o "=== DAILY STUDY STRUCTURE ===\n"
        \o "\n"
        \o "Morning Session (30-45 minutes):\n"
        \o "- Review previous day's material\n"
        \o "- Preview new concepts for the day\n"
        \o "\n"
        \o "Main Study Session (60-90 minutes):\n"
        \o "- Focus on new topic learning\n"
        \o "- Complete practice exercises\n"
        \o "- Take detailed notes\n"
        \o "\n"
        \o "Evening Review (15-30 minutes):\n"
        \o "- Summarize key learnings\n"
        \o "- Plan next day's study goals\n"
        \o "- Update progress tracker\n"
        \o "\n"
        \o "=== WEEKLY MILESTONES ===\n"
        \o "\n"
        \o "Week 1: Master foundational concepts\n"
        \o "Week 2: Complete core topic modules\n"
        \o ExtraMilestones(w)
        \o "Final Week: Achieve mastery and meet stated goals\n"
        \o "\n"
        \o "=== STUDY TIPS ===\n"
        \o "\n"
        \o "- Use active learning techniques (summarizing, teaching others)\n"
        \o "- Take regular breaks using the Pomodoro technique\n"
        \o "- Create a distraction-free study environment\n"
        \o "- Join study groups or find accountability partners\n"
        \o "- Regularly assess progress and adjust plan as needed\n"
        \o "\n"
        \o "Note: This is a template plan generated when AI services are unavailable. For a more personalized and detailed study plan, please try again later when our AI service is restored."

(***************************************************************************)
(* POST /generate-plan (src/app.js:129-283).                               *)
(***************************************************************************)

\* const prompt = `...` (src/app.js:139-155)
BuildPrompt(subject, level, duration, goals) ==
    "Create a comprehensive, personalized study plan with the following specifications:\n"
    \o "\n"
    \o "Subject: " \o JsToString(subject) \o "\n"
    \o "Academic Level: " \o JsToString(level) \o "\n"
    \o "Study Duration: " \o JsToString(duration) \o "\n"
    \o "Learning Goals: " \o JsToString(goals) \o "\n"
    \o "\n"
    \o "Please structure the response with:\n"
    \o "1. Study plan overview with phases\n"
    \o "2. Weekly breakdown with specific topics\n"
    \o "3. Daily study schedule recommendations\n"
    \o "4. Key milestones and checkpoints\n"
    \o "5. Assessment methods and progress tracking\n"
    \o "6. Recommended resources and materials\n"
    \o "7. Tips for effective learning\n"
    \o "\n"
    \o "Make the plan detailed, practical, and tailored to the specified level and duration."

\* const models = [...] (src/app.js:158-164)
models == << "mistralai/Mistral-7B-Instruct-v0.3",
             "microsoft/DialoGPT-medium",
             "google/flan-t5-large",
             "facebook/blenderbot-400M-distill",
             "bigscience/bloom-560m" >>

\* The validation with the check of goals forgotten.
MissingFieldButGoals(b) ==
    ~Truthy(b.subject) \/ ~Truthy(b.level) \/ ~Truthy(b.duration)

\* if (!subject || !level || !duration || !goals)
MissingField(b) ==
    ~Truthy(b.subject) \/ ~Truthy(b.level) \/ ~Truthy(b.duration) \/ ~Truthy(b.goals)

(***************************************************************************)
(* What one call of inference.textGeneration can come back with: the call  *)
(* throws, or resolves to nothing, or resolves to an object whose          *)
(* generated_text is pre + (echo copies of the prompt) + post.             *)
(***************************************************************************)
RECURSIVE Repeat(_, _)
Repeat(s, n) == IF n = 0 THEN "" ELSE s \o Repeat(s, n - 1)

Throws == [kind |-> "throws"]
NoResponse == [kind |-> "undefined"]
Text(pre, echo, post) == [kind |-> "text", pre |-> pre, echo |-> echo, post |-> post]

\* response.generated_text
GeneratedText(o, p) == o.pre \o Repeat(p, o.echo) \o o.post

\* if (response && response.generated_text)
HasGeneratedText(o, p) == o.kind = "text" /\ GeneratedText(o, p) # ""

\* if (generatedText.includes(prompt)) generatedText = generatedText.replace(prompt, '').trim();
RemoveEcho(text, p) ==
    IF Includes(text, p) THEN Trim(ReplaceFirstWithEmpty(text, p)) ELSE text

\* if (generatedText.length < 100)
MinAcceptableLength == 100
\* The comparison off by one: a text of exactly 100 characters is passed over.
TooShortOffByOne(text) == Len(text) <= MinAcceptableLength
TooShort(text) == Len(text) < MinAcceptableLength

(***************************************************************************)
(* State.  Every request r has the handler's locals (body, prompt, idx,    *)
(* modelUsed, lastError, generatedText, fallbackPlan) and its position pc: *)
(*   "idle"               not received yet                                 *)
(*   "awaitProvider"      suspended in await inference.textGeneration      *)
(*   "awaitStoreAI"       suspended in await db.collection.add, line 206   *)
(*   "awaitStoreFallback" suspended in await db.collection.add, line 253   *)
(*   "done"               the handler has returned                         *)
(*   "rejected"           the handler's promise was rejected by a throw    *)
(* calls and outcomes record what the provider saw of the request, writes  *)
(* the documents handed to the store and saves how each add ended,         *)
(* responses what was sent to the client, db the studyPlans collection     *)
(* (each document with its id and the request that added it).  render is a *)
(* direct call of generateFallbackPlan: its arguments and, once it has     *)
(* run, its locals.  client is the state of each request's connection:    *)
(* "connected", or the await the handler was suspended in when the client  *)
(* went away.  check is the handler of GET /check-models: its position,    *)
(* its locals, the probes it made and what it sent.                        *)
(***************************************************************************)
VARIABLES pc, body, prompt, idx, modelUsed, lastError, generatedText,
          fallbackPlan, calls, outcomes, writes, saves, responses, db, render,
          client, check

vars == << pc, body, prompt, idx, modelUsed, lastError, generatedText,
           fallbackPlan, calls, outcomes, writes, saves, responses, db, render,
           client, check >>

handlerVars == << pc, body, prompt, idx, modelUsed, lastError, generatedText,
                  fallbackPlan, calls, outcomes, writes, saves, responses, db >>

NoText == ""

\* The document handed to db.collection('studyPlans').add on the AI path
\* (src/app.js:206-215) and on the fallback path (src/app.js:253-262).
StudyPlanDoc(b, plan, model, ai) ==
    [ subject |-> b.subject, level |-> b.level, duration |-> b.duration,
      goals |-> b.goals, plan |-> plan, modelUsed |-> model,
      createdAt |-> "serverTimestamp", isAiGenerated |-> ai ]

\* The id the store assigns to the next document.
NextId == "plan" \o ToString(Len(db) + 1)

\* res.status(400).json({error}) (src/app.js:134-136)
BadRequest ==
    [ status |-> 400,
      json |-> [ error |-> "Missing required fields: subject, level, duration, and goals are all required" ] ]

\* res.json({...}) after the AI plan was saved (src/app.js:217-223)
AiSaved(text, id, model) ==
    [ status |-> 200,
      json |-> [ success |-> TRUE, plan |-> text, planId |-> id, modelUsed |-> model,
                 isAiGenerated |-> TRUE ] ]

\* The failed save reported as a failure of the request.
AiNotSavedAsError(text, model) ==
    [ status |-> 500,
      json |-> [ success |-> FALSE, error |-> "Failed to save study plan" ] ]

\* res.json({...}) after the save of the AI plan failed (src/app.js:227-233)
AiNotSaved(text, model) ==
    [ status |-> 200,
      json |-> [ success |-> TRUE, plan |-> text, modelUsed |-> model,
                 isAiGenerated |-> TRUE,
                 warning |-> "Plan generated successfully but not saved to database" ] ]

FallbackMessage ==
    "AI services are currently unavailable. A template study plan has been generated for you."

\* res.json({...}) after the fallback plan was saved (src/app.js:264-271)
FallbackSaved(text, id) ==
    [ status |-> 200,
      json |-> [ success |-> TRUE, plan |-> text, planId |-> id, modelUsed |-> "fallback",
                 isAiGenerated |-> FALSE, message |-> FallbackMessage ] ]

\* res.json({...}) after the save of the fallback plan failed (src/app.js:274-281)
FallbackNotSaved(text) ==
    [ status |-> 200,
      json |-> [ success |-> TRUE, plan |-> text, modelUsed |-> "fallback",
                 isAiGenerated |-> FALSE, message |-> FallbackMessage,
                 warning |-> "Plan not saved to database due to connection issues" ] ]

\* GET /check-models has not been requested.
NotChecking == [pc |-> "idle"]

\* No request has arrived; the collection is as the run found it (empty).
InitHandler(R) ==
    /\ pc = [r \in R |-> "idle"]
    /\ body = [r \in R |-> Undefined]
    /\ prompt = [r \in R |-> NoText]
    /\ idx = [r \in R |-> 0]
    /\ modelUsed = [r \in R |-> Null]
    /\ lastError = [r \in R |-> Null]
    /\ generatedText = [r \in R |-> NoText]
    /\ fallbackPlan = [r \in R |-> NoText]
    /\ calls = [r \in R |-> << >>]
    /\ outcomes = [r \in R |-> << >>]
    /\ writes = [r \in R |-> << >>]
    /\ saves = [r \in R |-> << >>]
    /\ responses = [r \in R |-> << >>]
    /\ db = << >>
    /\ client = [r \in R |-> "connected"]
    /\ check = NotChecking

\* The handler from its entry to its first await (src/app.js:129-184): the
\* validation, the prompt, and the call of the first model.
PostGeneratePlan(r, B) ==
    /\ pc[r] = "idle"
    /\ \E b \in B :
         /\ body' = [body EXCEPT ![r] = b]
         /\ IF MissingField(b)
            THEN /\ responses' = [responses EXCEPT ![r] = Append(@, BadRequest)]
                 /\ pc' = [pc EXCEPT ![r] = "done"]
                 /\ UNCHANGED << prompt, idx, calls >>
            ELSE /\ prompt' = [prompt EXCEPT ![r] =
                                 BuildPrompt(b.subject, b.level, b.duration, b.goals)]
                 /\ idx' = [idx EXCEPT ![r] = 1]
                 /\ calls' = [calls EXCEPT ![r] = Append(@, models[1])]
                 /\ pc' = [pc EXCEPT ![r] = "awaitProvider"]
                 /\ UNCHANGED responses
    /\ UNCHANGED << modelUsed, lastError, generatedText, fallbackPlan, outcomes,
                    writes, saves, db, render, client, check >>

\* The same model is called again instead of the next one.
TryNextModelRetry(r) ==
    /\ calls' = [calls EXCEPT ![r] = Append(@, models[idx[r]])]
    /\ pc' = [pc EXCEPT ![r] = "awaitProvider"]
    /\ UNCHANGED << idx, fallbackPlan, writes >>

\* The loop's position kept in one place for all the requests in flight.
TryNextModelShared(r) ==
    /\ idx' = [q \in DOMAIN idx |-> idx[r] + 1]
    /\ calls' = [calls EXCEPT ![r] = Append(@, models[idx[r] + 1])]
    /\ pc' = [pc EXCEPT ![r] = "awaitProvider"]
    /\ UNCHANGED << fallbackPlan, writes >>

\* The loop moves to the next model and calls it (src/app.js:170-184).
TryNextModel(r) ==
    /\ idx' = [idx EXCEPT ![r] = @ + 1]
    /\ calls' = [calls EXCEPT ![r] = Append(@, models[idx[r] + 1])]
    /\ pc' = [pc EXCEPT ![r] = "awaitProvider"]
    /\ UNCHANGED << fallbackPlan, writes >>

\* The fallback plan rendered from the fields in the wrong order.
UseFallbackSwapped(r) ==
    LET b == body[r] IN
    /\ UNCHANGED << idx, calls >>
    /\ IF FallbackThrows(b.duration)
       THEN /\ pc' = [pc EXCEPT ![r] = "rejected"]
            /\ UNCHANGED << fallbackPlan, writes >>
       ELSE LET plan == generateFallbackPlan(b.level, b.subject, b.duration, b.goals) IN
            /\ fallbackPlan' = [fallbackPlan EXCEPT ![r] = plan]
            /\ writes' = [writes EXCEPT ![r] =
                            Append(@, StudyPlanDoc(b, plan, "fallback", FALSE))]
            /\ pc' = [pc EXCEPT ![r] = "awaitStoreFallback"]

\* The loop is over without a return (src/app.js:246-262): the fallback plan
\* is rendered and handed to the store; a throw of generateFallbackPlan
\* leaves the async handler, whose promise nothing awaits.
UseFallback(r) ==
    LET b == body[r] IN
    /\ UNCHANGED << idx, calls >>
    /\ IF FallbackThrows(b.duration)
       THEN /\ pc' = [pc EXCEPT ![r] = "rejected"]
            /\ UNCHANGED << fallbackPlan, writes >>
       ELSE LET plan == generateFallbackPlan(b.subject, b.level, b.duration, b.goals) IN
            /\ fallbackPlan' = [fallbackPlan EXCEPT ![r] = plan]
            /\ writes' = [writes EXCEPT ![r] =
                            Append(@, StudyPlanDoc(b, plan, "fallback", FALSE))]
            /\ pc' = [pc EXCEPT ![r] = "awaitStoreFallback"]

\* End of one iteration that did not return: continue with the next model,
\* or leave the loop after the last.
NextIteration(r) ==
    IF idx[r] < Len(models) THEN TryNextModel(r) ELSE UseFallback(r)

\* The call outside any try: its error leaves the handler.
ProviderErrorEscapes(r) ==
    /\ lastError' = [lastError EXCEPT ![r] = Str("provider error")]
    /\ pc' = [pc EXCEPT ![r] = "rejected"]
    /\ UNCHANGED << idx, calls, fallbackPlan, writes, modelUsed, generatedText >>

\* catch (error) { lastError = error; } (src/app.js:239-243): the error of
\* the call is kept and the loop goes on.
CatchProviderError(r) ==
    /\ lastError' = [lastError EXCEPT ![r] = Str("provider error")]
    /\ NextIteration(r)
    /\ UNCHANGED << modelUsed, generatedText >>

\* else { lastError = new Error('No generated text in response'); }
\* (src/app.js:235-238)
NoGeneratedText(r) ==
    /\ lastError' = [lastError EXCEPT ![r] = Str("No generated text in response")]
    /\ NextIteration(r)
    /\ UNCHANGED << modelUsed, generatedText >>

\* if (generatedText.length < 100) { continue; } (src/app.js:197-200)
SkipShortText(r) ==
    /\ NextIteration(r)
    /\ UNCHANGED << modelUsed, lastError, generatedText >>

\* The document naming the head of the list, whichever model gave the text.
AcceptTextNamingFirstModel(r, text) ==
    /\ modelUsed' = [modelUsed EXCEPT ![r] = Str(models[idx[r]])]
    /\ generatedText' = [generatedText EXCEPT ![r] = text]
    /\ writes' = [writes EXCEPT ![r] =
                    Append(@, StudyPlanDoc(body[r], text, models[1], TRUE))]
    /\ pc' = [pc EXCEPT ![r] = "awaitStoreAI"]
    /\ UNCHANGED << idx, calls, lastError, fallbackPlan >>

\* The text is accepted (src/app.js:202-215): the plan is handed to the store.
AcceptText(r, text) ==
    /\ modelUsed' = [modelUsed EXCEPT ![r] = Str(models[idx[r]])]
    /\ generatedText' = [generatedText EXCEPT ![r] = text]
    /\ writes' = [writes EXCEPT ![r] =
                    Append(@, StudyPlanDoc(body[r], text, models[idx[r]], TRUE))]
    /\ pc' = [pc EXCEPT ![r] = "awaitStoreAI"]
    /\ UNCHANGED << idx, calls, lastError, fallbackPlan >>

\* The awaited call of the current model settles with o, and the handler runs
\* to its next await (src/app.js:174-244).
ProviderReturns(r, O) ==
    /\ pc[r] = "awaitProvider"
    /\ \E o \in O :
         /\ outcomes' = [outcomes EXCEPT ![r] = Append(@, o)]
         /\ IF o.kind = "throws" THEN CatchProviderError(r)
            ELSE IF ~HasGeneratedText(o, prompt[r]) THEN NoGeneratedText(r)
            ELSE LET text == RemoveEcho(GeneratedText(o, prompt[r]), prompt[r]) IN
                 IF TooShort(text) THEN SkipShortText(r) ELSE AcceptText(r, text)
    /\ UNCHANGED << body, prompt, saves, responses, db, render, client, check >>

\* The catch of the AI path's save without its return: after a failed save
\* the handler goes on to the fallback plan and saves again.
StoreReturnsFallsThrough(r) ==
    /\ pc[r] \in {"awaitStoreAI", "awaitStoreFallback"}
    /\ \E saved \in BOOLEAN :
         LET doc == writes[r][Len(writes[r])] IN
         /\ saves' = [saves EXCEPT ![r] = Append(@, IF saved THEN "saved" ELSE "failed")]
         /\ IF pc[r] = "awaitStoreAI" /\ ~saved
            THEN /\ UseFallback(r)
                 /\ UNCHANGED << db, responses >>
            ELSE /\ db' = IF saved THEN Append(db, [id |-> NextId, by |-> r, data |-> doc])
                                   ELSE db
                 /\ responses' = [responses EXCEPT ![r] = Append(@,
                      IF pc[r] = "awaitStoreAI"
                      THEN AiSaved(generatedText[r], NextId, models[idx[r]])
                      ELSE IF saved THEN FallbackSaved(fallbackPlan[r], NextId)
                                    ELSE FallbackNotSaved(fallbackPlan[r]))]
                 /\ pc' = [pc EXCEPT ![r] = "done"]
                 /\ UNCHANGED << idx, calls, fallbackPlan, writes >>
    /\ UNCHANGED << body, prompt, modelUsed, lastError, generatedText, outcomes, render,
                    client, check >>

\* The awaited db.collection('studyPlans').add settles: with the new
\* document's reference, or with an error (src/app.js:206-234, 253-282).
StoreReturns(r) ==
    /\ pc[r] \in {"awaitStoreAI", "awaitStoreFallback"}
    /\ \E saved \in BOOLEAN :
         LET doc == writes[r][Len(writes[r])] IN
         /\ saves' = [saves EXCEPT ![r] = Append(@, IF saved THEN "saved" ELSE "failed")]
         /\ db' = IF saved THEN Append(db, [id |-> NextId, by |-> r, data |-> doc]) ELSE db
         /\ responses' = [responses EXCEPT ![r] = Append(@,
              IF pc[r] = "awaitStoreAI"
              THEN IF saved THEN AiSaved(generatedText[r], NextId, models[idx[r]])
                            ELSE AiNotSaved(generatedText[r], models[idx[r]])
              ELSE IF saved THEN FallbackSaved(fallbackPlan[r], NextId)
                            ELSE FallbackNotSaved(fallbackPlan[r]))]
    /\ pc' = [pc EXCEPT ![r] = "done"]
    /\ UNCHANGED << body, prompt, idx, modelUsed, lastError, generatedText,
                    fallbackPlan, calls, outcomes, writes, render, client, check >>

(***************************************************************************)
(* The client of a request goes away while the handler is suspended in an  *)
(* await.  The handler registers no listener on req or res ('close',       *)
(* 'aborted') and hands no abort signal to the provider call or to the     *)
(* store: nothing of the handler's state changes.                          *)
(***************************************************************************)
\* The disconnection ending the handler: the pending await is abandoned.
ClientDisconnectsAborting(r) ==
    /\ client[r] = "connected"
    /\ pc[r] \in {"awaitProvider", "awaitStoreAI", "awaitStoreFallback"}
    /\ client' = [client EXCEPT ![r] = pc[r]]
    /\ pc' = [pc EXCEPT ![r] = "done"]
    /\ UNCHANGED << body, prompt, idx, modelUsed, lastError, generatedText,
                    fallbackPlan, calls, outcomes, writes, saves, responses, db,
                    render, check >>

ClientDisconnects(r) ==
    /\ client[r] = "connected"
    /\ pc[r] \in {"awaitProvider", "awaitStoreAI", "awaitStoreFallback"}
    /\ client' = [client EXCEPT ![r] = pc[r]]
    /\ UNCHANGED << handlerVars, render, check >>

(***************************************************************************)
(* A direct call of generateFallbackPlan(subject, level, duration, goals). *)
(***************************************************************************)
NotCalled == [stage |-> "none"]

\* The template numbered from a count the module keeps (here the number of
\* documents saved so far): the text depends on what was handled before.
GenerateFallbackPlanNumbered ==
    /\ render.stage = "called"
    /\ render' =
         IF FallbackThrows(render.duration)
         THEN [render EXCEPT !.stage = "threw"]
         ELSE [ stage |-> "returned",
                subject |-> render.subject, level |-> render.level,
                duration |-> render.duration, goals |-> render.goals,
                durationWeeks |-> durationWeeks(render.duration),
                plan |-> "Plan #" \o ToString(Len(db) + 1) \o "\n"
                         \o generateFallbackPlan(render.subject, render.level,
                                                 render.duration, render.goals) ]
    /\ UNCHANGED << handlerVars, client, check >>

GenerateFallbackPlan ==
    /\ render.stage = "called"
    /\ render' =
         IF FallbackThrows(render.duration)
         THEN [render EXCEPT !.stage = "threw"]
         ELSE [ stage |-> "returned",
                subject |-> render.subject, level |-> render.level,
                duration |-> render.duration, goals |-> render.goals,
                durationWeeks |-> durationWeeks(render.duration),
                plan |-> generateFallbackPlan(render.subject, render.level,
                                              render.duration, render.goals) ]
    /\ UNCHANGED << handlerVars, client, check >>

(***************************************************************************)
(* GET /check-models (src/app.js:98-126): every model of the handler's own *)
(* list is probed with inputs "Hello", one after the other, and the        *)
(* statuses are sent.  probes are the calls made, results how each ended.  *)
(***************************************************************************)
checkModels == << "mistralai/Mistral-7B-Instruct-v0.3",
                  "microsoft/DialoGPT-medium",
                  "google/flan-t5-large",
                  "facebook/blenderbot-400M-distill",
                  "bigscience/bloom-560m" >>

ProbeOk == [kind |-> "returns"]
ProbeError(message) == [kind |-> "throws", message |-> message]

\* modelStatus[model] = ... : the property is set, the others are kept.
SetStatus(modelStatus, model, status) ==
    [m \in DOMAIN modelStatus \cup {model} |->
        IF m = model THEN status ELSE modelStatus[m]]

\* res.json({timestamp, modelStatus}) (src/app.js:122-125)
CheckModelsResponse(t, modelStatus) ==
    [ status |-> 200, json |-> [ timestamp |-> t, modelStatus |-> modelStatus ] ]

\* The handler from its entry to its first await (src/app.js:98-111).
GetCheckModels ==
    /\ check.pc = "idle"
    /\ check' = [ pc |-> "awaitProbe", idx |-> 1, probes |-> << checkModels[1] >>,
                  results |-> << >>, modelStatus |-> << >>, responses |-> << >> ]
    /\ UNCHANGED << handlerVars, render, client >>

\* The loop left at the first probe that fails.
ProbeReturnsStoppingAtError(P, T) ==
    /\ check.pc = "awaitProbe"
    /\ \E p \in P, t \in T :
         LET model == checkModels[check.idx]
             status == IF p.kind = "returns" THEN "Available"
                       ELSE "Unavailable: " \o p.message
             modelStatus == SetStatus(check.modelStatus, model, status)
         IN  check' =
               IF check.idx < Len(checkModels) /\ p.kind = "returns"
               THEN [check EXCEPT !.results = Append(@, p),
                                  !.modelStatus = modelStatus,
                                  !.idx = @ + 1,
                                  !.probes = Append(@, checkModels[check.idx + 1])]
               ELSE [check EXCEPT !.results = Append(@, p),
                                  !.modelStatus = modelStatus,
                                  !.pc = "done",
                                  !.responses = Append(@, CheckModelsResponse(t, modelStatus))]
    /\ UNCHANGED << handlerVars, render, client >>

\* The awaited probe settles with p, and the handler runs to its next await
\* or to its response, sent at time t (src/app.js:109-125).
ProbeReturns(P, T) ==
    /\ check.pc = "awaitProbe"
    /\ \E p \in P, t \in T :
         LET model == checkModels[check.idx]
             status == IF p.kind = "returns" THEN "Available"
                       ELSE "Unavailable: " \o p.message
             modelStatus == SetStatus(check.modelStatus, model, status)
         IN  check' =
               IF check.idx < Len(checkModels)
               THEN [check EXCEPT !.results = Append(@, p),
                                  !.modelStatus = modelStatus,
                                  !.idx = @ + 1,
                                  !.probes = Append(@, checkModels[check.idx + 1])]
               ELSE [check EXCEPT !.results = Append(@, p),
                                  !.modelStatus = modelStatus,
                                  !.pc = "done",
                                  !.responses = Append(@, CheckModelsResponse(t, modelStatus))]
    /\ UNCHANGED << handlerVars, render, client >>

(***************************************************************************)
(* The inputs the model draws from.                                        *)
(***************************************************************************)
Requests == {"r1"}

\* Request bodies: each field absent, empty or present; duration also a number.
Bodies ==
    [ subject  : {Undefined, Str("Biology")},
      level    : {Str(""), Str("Beginner")},
      duration : {Undefined, Str(""), Str("4 weeks"), Str("1 week"), Num(6), Num(0)},
      goals    : {Str(""), Str("Pass exam")} ]

Filler(n) == Repeat("x", n)
Blank(n) == Repeat(" ", n)

\* Provider results that the handler passes over ...
Unusable ==
    { Throws,
      Text("", 0, ""),
      Text("", 0, Filler(MinAcceptableLength - 1)),
      Text("", 1, "\n\nHere is your plan: " \o Filler(MinAcceptableLength - 20)) }

\* ... and results it takes.
Usable ==
    { Text("", 0, Filler(MinAcceptableLength)),
      Text("", 1, "\n\nHere is your plan: " \o Filler(MinAcceptableLength - 19) \o " \n"),
      Text("Sure! ", 1, "\n" \o Filler(MinAcceptableLength)),
      Text("", 2, "\n\n" \o Filler(MinAcceptableLength)),
      Text("", 0, Blank(MinAcceptableLength)) }

Outcomes == Unusable \cup Usable \cup {NoResponse}

\* Arguments of the direct calls of generateFallbackPlan.
MaxWeeks == 20
Durations ==
    {Str(ToString(w) \o " weeks") : w \in 0..MaxWeeks}
    \cup { Str("6 weeks"), Str("1 week"), Str("no number here"), Str(""),
           Str("007 days"), Str("about 2 to 3 months"), Str("week 10 of 12"),
           Str("0 or 5 weeks"), Str("00"), Str("a 0"), Num(6) }

RenderArgs ==
    [ stage : {"called"}, subject : {Str("Biology"), Str("Linear Algebra")},
      level : {Str("Beginner")}, duration : Durations, goals : {Str("Pass exam")} ]

Init == InitHandler(Requests) /\ render = NotCalled

Next ==
    \E r \in Requests :
        \/ PostGeneratePlan(r, Bodies)
        \/ ProviderReturns(r, Outcomes)
        \/ StoreReturns(r)

Spec == Init /\ [][Next]_vars

\* generateFallbackPlan alone, called on each of RenderArgs.
InitFallback == InitHandler(Requests) /\ render \in RenderArgs

NextFallback == GenerateFallbackPlan

SpecFallback == InitFallback /\ [][NextFallback]_vars

\* Two requests in flight at once, their awaits settling in any order, and a
\* direct call of generateFallbackPlan at any moment among them.
ConcurrentRequests == {"r1", "r2"}

FewBodies ==
    [ subject  : {Str("Biology")},
      level    : {Str("Beginner")},
      duration : {Str("4 weeks"), Str("1 week")},
      goals    : {Str(""), Str("Pass exam")} ]

FewOutcomes == { Throws, Text("", 0, Filler(MinAcceptableLength)) }

FewRenderArgs ==
    [ stage : {"called"}, subject : {Str("Biology")}, level : {Str("Beginner")},
      duration : {Str("4 weeks"), Str("1 week")}, goals : {Str("Pass exam")} ]

InitConcurrent == InitHandler(ConcurrentRequests) /\ render \in FewRenderArgs

NextConcurrent ==
    \/ \E r \in ConcurrentRequests :
          \/ PostGeneratePlan(r, FewBodies)
          \/ ProviderReturns(r, FewOutcomes)
          \/ StoreReturns(r)
    \/ GenerateFallbackPlan

SpecConcurrent == InitConcurrent /\ [][NextConcurrent]_vars

\* One request whose client may go away during any of its awaits.
SomeOutcomes ==
    { Throws, Text("", 0, Filler(MinAcceptableLength - 1)),
      Text("", 0, Filler(MinAcceptableLength)) }

InitDisconnect == InitHandler(Requests) /\ render = NotCalled

NextDisconnect ==
    \E r \in Requests :
        \/ PostGeneratePlan(r, FewBodies)
        \/ ProviderReturns(r, SomeOutcomes)
        \/ StoreReturns(r)
        \/ ClientDisconnects(r)

SpecDisconnect == InitDisconnect /\ [][NextDisconnect]_vars

\* One request whose awaits all settle: every call of a provider and every
\* add to the store returns at last, with a result or with an error.
NextReturning ==
    \E r \in Requests :
        \/ PostGeneratePlan(r, Bodies)
        \/ ProviderReturns(r, SomeOutcomes)
        \/ StoreReturns(r)

SpecReturning ==
    /\ Init
    /\ [][NextReturning]_vars
    /\ \A r \in Requests :
         /\ WF_vars(ProviderReturns(r, SomeOutcomes))
         /\ WF_vars(StoreReturns(r))

\* GET /check-models alone: each probe returns, or fails with one of two
\* messages.
ProbeOutcomes == { ProbeOk, ProbeError("Model is loading"), ProbeError("Not Found") }

Timestamps == { "2024-01-01T00:00:00.000Z", "2024-01-01T00:00:05.000Z" }

NextCheckModels ==
    \/ GetCheckModels
    \/ ProbeReturns(ProbeOutcomes, Timestamps)

SpecCheckModels == Init /\ [][NextCheckModels]_vars

(***************************************************************************)
(* Properties.                                                             *)
(***************************************************************************)

\* The four fields are non-empty strings.
ValidBody(b) ==
    \A f \in {"subject", "level", "duration", "goals"} : IsString(b[f]) /\ b[f].s # ""

\* Some field is missing or empty.
MissingOrEmpty(b) ==
    \E f \in {"subject", "level", "duration", "goals"} : b[f] \in {Undefined, Str("")}

\* The provider's result o carries a text that, after the echo removal, has
\* at least 100 characters.
Acceptable(o, p) ==
    /\ o.kind = "text"
    /\ Len(RemoveEcho(GeneratedText(o, p), p)) >= 100

\* Position k is the first acceptable result the request r has received.
FirstAcceptable(r, k) ==
    /\ k \in 1..Len(outcomes[r])
    /\ Acceptable(outcomes[r][k], prompt[r])
    /\ \A j \in 1..(k - 1) : ~Acceptable(outcomes[r][j], prompt[r])

\* All the providers were tried and none gave an acceptable result.
Exhausted(r) ==
    /\ Len(outcomes[r]) = Len(models)
    /\ \A j \in 1..Len(outcomes[r]) : ~Acceptable(outcomes[r][j], prompt[r])

\* The request was answered once, with a.
Answered(r) == pc[r] = "done" /\ Len(responses[r]) = 1
Answer(r) == responses[r][1]

\* C1: if provider k is the first whose text, after the echo removal, has at
\* least 100 characters, then the providers called are exactly the first k
\* of the list (none after k is ever called), the handler goes on to save
\* and answer, and its answer names provider k with isAiGenerated = true.
C1_FirstAcceptableWins ==
    \A r \in Requests : \A k \in 1..Len(models) :
        FirstAcceptable(r, k) =>
            /\ calls[r] = SubSeq(models, 1, k)
            /\ Len(outcomes[r]) = k
            /\ pc[r] \in {"awaitStoreAI", "done"}
            /\ pc[r] = "done" =>
                 /\ Answered(r)
                 /\ Answer(r).json.modelUsed = models[k]
                 /\ Answer(r).json.isAiGenerated = TRUE

\* C1 witness: the third provider answers with exactly 100 characters after a
\* text of 99 characters and an error, and the answer names the third.
C1_Witness ==
    \E r \in Requests :
        /\ Answered(r)
        /\ Len(outcomes[r]) = 3
        /\ outcomes[r][1] = Text("", 0, Filler(99))
        /\ outcomes[r][2] = Throws
        /\ outcomes[r][3] = Text("", 0, Filler(100))
        /\ Answer(r).json.modelUsed = models[3]

\* C2: for a request whose fields are non-empty strings, if all the
\* providers failed or gave less than 100 characters, the plan is the
\* fallback plan of the request's own four fields and the answer has
\* isAiGenerated = false and modelUsed = "fallback"; and the fallback
\* generator is used in that case only.
C2_FallbackWhenExhausted ==
    \A r \in Requests :
        (pc[r] # "idle" /\ ValidBody(body[r])) =>
            LET b == body[r]
                expected == generateFallbackPlan(b.subject, b.level, b.duration, b.goals)
            IN  /\ Exhausted(r) =>
                     /\ pc[r] \in {"awaitStoreFallback", "done"}
                     /\ fallbackPlan[r] = expected
                     /\ pc[r] = "done" =>
                          /\ Answered(r)
                          /\ Answer(r).json.isAiGenerated = FALSE
                          /\ Answer(r).json.modelUsed = "fallback"
                          /\ Answer(r).json.plan = expected
                /\ ~Exhausted(r) =>
                     /\ fallbackPlan[r] = NoText
                     /\ pc[r] # "awaitStoreFallback"
                     /\ pc[r] = "done" => Answer(r).json.modelUsed # "fallback"

\* C2 witness: five unusable results (an error, no text, short texts), and
\* the answer carries the fallback plan.
C2_Witness ==
    \E r \in Requests :
        /\ Answered(r)
        /\ Exhausted(r)
        /\ outcomes[r][1] = Throws
        /\ outcomes[r][2] = Text("", 0, "")
        /\ outcomes[r][3] = Text("", 0, Filler(99))
        /\ Answer(r).json.modelUsed = "fallback"
        /\ Includes(Answer(r).json.plan, "Study Plan for Biology (Beginner Level)")

\* C3: a request whose fields are non-empty strings never leaves the handler
\* by a throw, whatever the providers do, and when the handler is done it has
\* sent one answer, 200 with success: true.
C3_ProviderFailuresAbsorbed ==
    \A r \in Requests :
        (pc[r] # "idle" /\ ValidBody(body[r])) =>
            /\ pc[r] # "rejected"
            /\ pc[r] = "done" =>
                 /\ Answered(r)
                 /\ Answer(r).status = 200
                 /\ Answer(r).json.success = TRUE

\* C3 witness: all five providers raised an error and the request was
\* answered 200.
C3_Witness ==
    \E r \in Requests :
        /\ Answered(r)
        /\ Len(outcomes[r]) = Len(models)
        /\ \A j \in 1..Len(models) : outcomes[r][j] = Throws
        /\ Answer(r).status = 200

\* C4: a request with a missing or empty field is answered 400 at once, and
\* no provider is called and nothing is handed to the store for it.
C4_ValidationFirst ==
    \A r \in Requests :
        (pc[r] # "idle" /\ MissingOrEmpty(body[r])) =>
            /\ Answered(r)
            /\ Answer(r).status = 400
            /\ calls[r] = << >>
            /\ outcomes[r] = << >>
            /\ writes[r] = << >>
            /\ \A i \in 1..Len(db) : db[i].by # r

\* C4 witness: a request whose only defect is an empty goals field was
\* answered 400.
C4_Witness ==
    \E r \in Requests :
        /\ Answered(r)
        /\ body[r].goals = Str("")
        /\ Truthy(body[r].subject) /\ Truthy(body[r].level) /\ Truthy(body[r].duration)
        /\ Answer(r).status = 400

\* The documents of the collection that the request r added.
StoredBy(r) == {i \in 1..Len(db) : db[i].by = r}

\* The last add of the request r ended with an error.
SaveFailed(r) == saves[r] # << >> /\ saves[r][Len(saves[r])] = "failed"

\* C5: when the store write fails after a plan was chosen, on either path,
\* the answer is still 200 with success: true, carries the chosen plan and
\* the modelUsed and isAiGenerated a successful write would have given, a
\* non-empty warning and no planId; no provider is called after the failure,
\* no second write is made and an AI plan is not replaced by the fallback.
C5_StoreFailureIsWarning ==
    \A r \in Requests :
        (pc[r] \notin {"idle", "awaitProvider"} /\ SaveFailed(r)) =>
            LET doc == writes[r][1]
                a == Answer(r)
                saved == IF doc.isAiGenerated
                         THEN AiSaved(doc.plan, NextId, doc.modelUsed)
                         ELSE FallbackSaved(doc.plan, NextId)
            IN  /\ Answered(r)
                /\ a.status = 200
                /\ a.json.success = TRUE
                /\ a.json.plan = doc.plan /\ doc.plan # NoText
                /\ a.json.modelUsed = saved.json.modelUsed
                /\ a.json.isAiGenerated = saved.json.isAiGenerated
                /\ "warning" \in DOMAIN a.json /\ a.json.warning # ""
                /\ "planId" \notin DOMAIN a.json
                /\ Len(calls[r]) = Len(outcomes[r])
                /\ Len(writes[r]) = 1
                /\ StoredBy(r) = {}
                /\ (\E k \in 1..Len(models) : FirstAcceptable(r, k)) =>
                     /\ a.json.isAiGenerated = TRUE
                     /\ a.json.plan = generatedText[r]
                     /\ fallbackPlan[r] = NoText
                /\ Exhausted(r) =>
                     /\ a.json.isAiGenerated = FALSE
                     /\ a.json.plan = fallbackPlan[r]

\* C5 witness: the second provider's text was accepted, its save failed, and
\* the answer carries that text with a warning.
C5_Witness ==
    \E r \in Requests :
        /\ Answered(r)
        /\ SaveFailed(r)
        /\ FirstAcceptable(r, 2)
        /\ Answer(r).json.plan = Filler(100)
        /\ Answer(r).json.modelUsed = models[2]
        /\ "warning" \in DOMAIN Answer(r).json

\* C6: a request makes at most one store write attempt, and only once its
\* plan is chosen (the accepted text, or the fallback plan after all the
\* providers were passed over); the collection holds one document of the
\* request when the attempt succeeded and none otherwise; and a chosen
\* fallback plan is handed to the store.
C6_OneWritePerRequest ==
    \A r \in Requests :
        /\ Len(writes[r]) <= 1
        /\ Len(saves[r]) <= Len(writes[r])
        /\ writes[r] # << >> =>
             LET doc == writes[r][1] IN
             \/ /\ doc.isAiGenerated
                /\ FirstAcceptable(r, Len(outcomes[r]))
                /\ generatedText[r] # NoText /\ doc.plan = generatedText[r]
             \/ /\ ~doc.isAiGenerated
                /\ Exhausted(r)
                /\ fallbackPlan[r] # NoText /\ doc.plan = fallbackPlan[r]
        /\ Cardinality(StoredBy(r)) = (IF saves[r] = << "saved" >> THEN 1 ELSE 0)
        /\ (fallbackPlan[r] # NoText \/ pc[r] = "awaitStoreFallback") => Len(writes[r]) = 1
        /\ (Exhausted(r) /\ ValidBody(body[r])) => Len(writes[r]) = 1

\* C6 witness: the fallback path made its one write and the document is in
\* the collection.
C6_Witness ==
    \E r \in Requests :
        /\ Answered(r)
        /\ Exhausted(r)
        /\ Len(writes[r]) = 1
        /\ saves[r] = << "saved" >>
        /\ Cardinality(StoredBy(r)) = 1
        /\ db[1].data.modelUsed = "fallback"

\* C7: the providers called are a prefix of the declared list, in its order
\* and without repetition; at most one call is in flight, and only while the
\* handler awaits it; every call but the last has returned an unacceptable
\* result before the next was made.
C7_SequentialProviders ==
    \A r \in Requests :
        /\ Len(calls[r]) <= Len(models)
        /\ calls[r] = SubSeq(models, 1, Len(calls[r]))
        /\ \A i, j \in 1..Len(calls[r]) : i # j => calls[r][i] # calls[r][j]
        /\ Len(calls[r]) - Len(outcomes[r]) = (IF pc[r] = "awaitProvider" THEN 1 ELSE 0)
        /\ \A j \in 1..(Len(calls[r]) - 1) :
             /\ j <= Len(outcomes[r])
             /\ ~Acceptable(outcomes[r][j], prompt[r])

\* C7 witness: the fourth provider's call is in flight after an error, a
\* missing text and a short text from the first three.
C7_Witness ==
    \E r \in Requests :
        /\ pc[r] = "awaitProvider"
        /\ calls[r] = SubSeq(models, 1, 4)
        /\ outcomes[r] = << Throws, Text("", 0, ""), Text("", 0, Filler(99)) >>

\* s begins with p.
StartsWith(s, p) == Len(p) <= Len(s) /\ SubSeq(s, 1, Len(p)) = p

\* s has white space neither at its start nor at its end.
IsTrimmed(s) ==
    s = "" \/ (CharAt(s, 1) \notin WhiteSpace /\ CharAt(s, Len(s)) \notin WhiteSpace)

\* C8: when a provider's raw output contains the prompt, the text that is
\* length-checked is the raw output with the prompt removed and trimmed: an
\* accepted text is that text, does not start with the prompt and has no
\* leading or trailing white space, and an output whose remainder has fewer
\* than 100 characters is passed over whatever its raw length.
C8_EchoRemoved ==
    \A r \in Requests : \A k \in 1..Len(outcomes[r]) :
        LET o == outcomes[r][k]
            raw == GeneratedText(o, prompt[r])
            rest == Trim(ReplaceFirstWithEmpty(raw, prompt[r]))
        IN  (o.kind = "text" /\ Includes(raw, prompt[r])) =>
                /\ (Len(rest) < 100 /\ Len(raw) >= 100) =>
                     /\ k < Len(models) => Len(calls[r]) > k
                     /\ k = Len(models) => pc[r] \notin {"awaitProvider", "awaitStoreAI"}
                     /\ k = Len(outcomes[r]) => generatedText[r] = NoText
                /\ Len(rest) >= 100 =>
                     /\ k = Len(outcomes[r])
                     /\ generatedText[r] = rest
                     /\ writes[r][1].plan = rest
                     /\ IsTrimmed(generatedText[r])
                     /\ ~StartsWith(generatedText[r], prompt[r])
                     /\ pc[r] = "done" => Answer(r).json.plan = rest

\* The duration string holds a digit.
HasInteger(s) == \E i \in 1..Len(s) : CharAt(s, i) \in Digits

\* The value of the first maximal run of digits of s.
FirstInteger(s) == DecimalValue(MatchDigits(s).s)

\* C9: the week count of the fallback generator is the first integer found in
\* the duration string, whatever that integer is (0 included), and 4 when
\* the string holds no integer.
C9_FirstIntegerOrDefault ==
    render.stage = "returned" =>
        render.durationWeeks =
            (IF HasInteger(render.duration.s) THEN FirstInteger(render.duration.s) ELSE 4)

\* The least integer that is at least 7w/10.
CeilingOfSeventyPercent(w) == CHOOSE n \in 0..w : 10 * n >= 7 * w /\ 10 * (n - 1) < 7 * w

\* C10: for every week count W >= 1 the rendered template has Phase 2 as
\* "3-ceil(0.7 W)" if W > 2 and as "2" otherwise, Phase 3 as
\* "ceil(0.7 W)+1-(W-1)" without any guard, the line of week 3 exactly if
\* W > 2 and the line of week 4 exactly if W > 3.
C10_TemplateBreakpoints ==
    render.stage = "returned" =>
        LET W == render.durationWeeks
            c == CeilingOfSeventyPercent(W)
            plan == render.plan
        IN  /\ W >= 1
            /\ Includes(plan, "\nPhase 2: Core Learning (Week "
                              \o (IF W > 2 THEN "3-" \o ToString(c) ELSE "2") \o ")\n")
            /\ Includes(plan, "\nPhase 3: Advanced Application (Week "
                              \o ToString(c + 1) \o "-" \o ToString(W - 1) \o ")\n")
            /\ Includes(plan, "\nWeek 3: ") <=> (W > 2)
            /\ Includes(plan, "\nWeek 4: ") <=> (W > 3)

\* C10 witness: a plan of 4 weeks was rendered, with Phase 2 as "3-3",
\* Phase 3 as "4-3" and both extra milestone lines.
C10_Witness ==
    /\ render.stage = "returned"
    /\ render.durationWeeks = 4
    /\ Includes(render.plan, "(Week 3-3)")
    /\ Includes(render.plan, "(Week 4-3)")
    /\ Includes(render.plan, "\nWeek 4: Integrate advanced concepts\n")

\* The direct call and the request r have the same four arguments.
SameArguments(r) ==
    /\ pc[r] # "idle"
    /\ render.subject = body[r].subject /\ render.level = body[r].level
    /\ render.duration = body[r].duration /\ render.goals = body[r].goals

C12_UnexpectedErrorAnswered500 ==
    \A r \in DOMAIN pc :
        pc[r] = "rejected" =>
            /\ Len(responses[r]) = 1
            /\ responses[r][1].status = 500

\* The client of r has gone away.
Disconnected(r) == client[r] # "connected"

\* The document the handler of r is to hand to the store, by what the
\* request and the providers' results alone determine.
ExpectedDoc(r) ==
    LET b == body[r] IN
    IF Exhausted(r)
    THEN StudyPlanDoc(b, generateFallbackPlan(b.subject, b.level, b.duration, b.goals),
                      "fallback", FALSE)
    ELSE LET k == CHOOSE j \in 1..Len(outcomes[r]) : FirstAcceptable(r, j) IN
         StudyPlanDoc(b, RemoveEcho(GeneratedText(outcomes[r][k], prompt[r]), prompt[r]),
                      models[k], TRUE)

\* C13: a client going away changes nothing of the handler's run: the step of
\* disconnection leaves the handler's state as it is, the await that was
\* pending can still settle (it is not cancelled), and once the handler has
\* ended, the one document it handed to the store is the one the request and
\* the providers' results determine, and the write has settled.
C13_DisconnectChangesNothing ==
    /\ [][client' # client => UNCHANGED handlerVars]_vars
    /\ [](\A r \in DOMAIN pc :
            Disconnected(r) =>
                /\ pc[r] = "awaitProvider" => ENABLED ProviderReturns(r, SomeOutcomes)
                /\ pc[r] \in {"awaitStoreAI", "awaitStoreFallback"} => ENABLED StoreReturns(r)
                /\ pc[r] = "done" =>
                     /\ Len(saves[r]) = 1
                     /\ Len(responses[r]) = 1
                     /\ writes[r] = << ExpectedDoc(r) >>)

\* C13 witness: the client went away during the call of the first provider;
\* two more providers were called, the third was accepted, and its plan was
\* saved.
C13_Witness ==
    \E r \in DOMAIN pc :
        /\ client[r] = "awaitProvider"
        /\ pc[r] = "done"
        /\ Len(calls[r]) = 3
        /\ FirstAcceptable(r, 3)
        /\ writes[r] = << ExpectedDoc(r) >>
        /\ saves[r] = << "saved" >>
        /\ Len(db) = 1

\* All that the handler keeps for the request r.
OwnState(r) ==
    << pc[r], body[r], prompt[r], idx[r], modelUsed[r], lastError[r], generatedText[r],
       fallbackPlan[r], calls[r], outcomes[r], writes[r], saves[r], responses[r] >>

\* The answer a holds what the document doc holds, with a warning exactly
\* when the save failed.
AnswersWith(a, doc, saved) ==
    /\ a.status = 200
    /\ a.json.plan = doc.plan
    /\ a.json.modelUsed = doc.modelUsed
    /\ a.json.isAiGenerated = doc.isAiGenerated
    /\ ("planId" \in DOMAIN a.json) = saved
    /\ ("warning" \in DOMAIN a.json) = ~saved

\* C14: requests in flight together are independent under every
\* interleaving.  A step changes what the handler keeps for one request at
\* most; the step a request waits for can be taken whatever the position of
\* the others (a request whose call never returns holds up no other); and
\* the answer and the document of a request that has ended are those that
\* its own fields, the results of its own provider calls and of its own
\* save determine (the id of the saved document is the store's).
C14_RequestsIndependent ==
    /\ [][\A r1, r2 \in DOMAIN pc :
            (OwnState(r1)' # OwnState(r1) /\ OwnState(r2)' # OwnState(r2)) => r1 = r2]_vars
    /\ [](\A r \in DOMAIN pc :
            /\ pc[r] = "idle" => ENABLED PostGeneratePlan(r, FewBodies)
            /\ pc[r] = "awaitProvider" => ENABLED ProviderReturns(r, FewOutcomes)
            /\ pc[r] \in {"awaitStoreAI", "awaitStoreFallback"} => ENABLED StoreReturns(r)
            /\ pc[r] = "done" =>
                 IF MissingField(body[r])
                 THEN responses[r] = << BadRequest >> /\ writes[r] = << >> /\ calls[r] = << >>
                 ELSE /\ Exhausted(r) \/ \E k \in 1..Len(outcomes[r]) : FirstAcceptable(r, k)
                      /\ Len(saves[r]) = 1
                      /\ Len(responses[r]) = 1
                      /\ writes[r] = << ExpectedDoc(r) >>
                      /\ AnswersWith(Answer(r), ExpectedDoc(r), saves[r][1] = "saved"))

\* C14 witness: two requests with the same fields; the first is still
\* waiting for its first provider call, which has not returned, while the
\* second went through two providers and was answered with the plan of the
\* second provider.
C14_Witness ==
    \E r1, r2 \in DOMAIN pc :
        /\ r1 # r2
        /\ body[r1] = body[r2]
        /\ pc[r1] = "awaitProvider"
        /\ Len(calls[r1]) = 1
        /\ outcomes[r1] = << >>
        /\ pc[r2] = "done"
        /\ FirstAcceptable(r2, 2)
        /\ AnswersWith(Answer(r2), ExpectedDoc(r2), TRUE)

\* C15: whatever text a provider returns, with the prompt in it or not, the
\* length compared to 100 is the length of the text trimmed: a text accepted
\* has at least 100 characters once trimmed.
C15_TrimmedLengthCompared ==
    \A r \in DOMAIN pc :
        generatedText[r] # NoText => Len(Trim(generatedText[r])) >= MinAcceptableLength

\* C16: when every provider call and every store write returns at last, a
\* request that was received gets exactly one response, after five provider
\* calls at the most and one store write at the most.
C16_EveryRequestAnswered ==
    \A r \in Requests :
        [](pc[r] # "idle" =>
             <>(/\ Len(responses[r]) = 1
                /\ Len(calls[r]) <= Len(models)
                /\ Len(writes[r]) <= 1))

\* The status the handler of /check-models records for a probe's result.
StatusOf(p) == IF p = ProbeOk THEN "Available" ELSE "Unavailable: " \o p.message

\* C17: GET /check-models probes the models of its list in order, each once,
\* whatever the earlier probes gave (the probes made are always the first of
\* the list, one more than the results received until the last); the status
\* of each model probed is that of its own result, an error making that
\* model only unavailable; and the response, sent once all five have
\* settled, has status 200 and one entry for each model.
C17_CheckModelsProbesAll ==
    check.pc # "idle" =>
        LET n == Len(check.results) IN
        /\ n <= Len(checkModels)
        /\ check.probes = SubSeq(checkModels, 1, IF n < Len(checkModels) THEN n + 1 ELSE n)
        /\ DOMAIN check.modelStatus = { checkModels[i] : i \in 1..n }
        /\ \A i \in 1..n : check.modelStatus[checkModels[i]] = StatusOf(check.results[i])
        /\ (check.pc = "done") = (n = Len(checkModels))
        /\ IF check.pc = "done"
           THEN /\ Len(check.responses) = 1
                /\ check.responses[1].status = 200
                /\ check.responses[1].json.modelStatus = check.modelStatus
                /\ Cardinality(DOMAIN check.modelStatus) = Len(checkModels)
           ELSE check.responses = << >>

\* C17 witness: the first and the third probe failed, the others returned;
\* all five were probed and the response marks those two only unavailable.
C17_Witness ==
    /\ check.pc = "done"
    /\ check.probes = checkModels
    /\ check.results = << ProbeError("Not Found"), ProbeOk, ProbeError("Model is loading"),
                          ProbeOk, ProbeOk >>
    /\ check.responses[1].status = 200
    /\ check.responses[1].json.modelStatus[checkModels[1]] = "Unavailable: Not Found"
    /\ check.responses[1].json.modelStatus[checkModels[2]] = "Available"
    /\ check.responses[1].json.modelStatus[checkModels[3]] = "Unavailable: Model is loading"
    /\ check.responses[1].json.modelStatus[checkModels[5]] = "Available"

\* The identifiers of the providers.
ProviderIds == { models[i] : i \in 1..Len(models) }

\* C18: a request hands one document to the store at the most, and none
\* while its results so far were all refused and the list is not exhausted
\* (no document for a failed or refused attempt).  The document holds the
\* request's four fields; its isAiGenerated is true exactly when its
\* modelUsed is a provider's identifier and false exactly when it is
\* "fallback"; a document of a provider is that of the attempt accepted, the
\* last made.  The response of the request has the document's plan,
\* modelUsed and isAiGenerated.
C18_RecordAgreesWithResponse ==
    \A r \in DOMAIN pc :
        /\ Len(writes[r]) <= 1
        /\ (writes[r] # << >>) =
              (/\ pc[r] \in {"awaitStoreAI", "awaitStoreFallback", "done"}
               /\ ~MissingField(body[r]))
        /\ writes[r] # << >> =>
             LET doc == writes[r][1] IN
             /\ Exhausted(r) \/ Acceptable(outcomes[r][Len(outcomes[r])], prompt[r])
             /\ \A f \in {"subject", "level", "duration", "goals"} : doc[f] = body[r][f]
             /\ (doc.isAiGenerated = TRUE) = (doc.modelUsed \in ProviderIds)
             /\ (doc.isAiGenerated = FALSE) = (doc.modelUsed = "fallback")
             /\ doc.modelUsed \in ProviderIds =>
                  /\ doc.modelUsed = models[Len(outcomes[r])]
                  /\ doc.plan = RemoveEcho(GeneratedText(outcomes[r][Len(outcomes[r])],
                                                         prompt[r]), prompt[r])
             /\ pc[r] = "done" =>
                  /\ Len(responses[r]) = 1
                  /\ Answer(r).json.plan = doc.plan
                  /\ Answer(r).json.modelUsed = doc.modelUsed
                  /\ Answer(r).json.isAiGenerated = doc.isAiGenerated
                  /\ (Answer(r).json.isAiGenerated = TRUE) =
                        (Answer(r).json.modelUsed \in ProviderIds)
                  /\ (Answer(r).json.isAiGenerated = FALSE) =
                        (Answer(r).json.modelUsed = "fallback")
        /\ \A i \in StoredBy(r) : writes[r] = << db[i].data >>

\* C18 witness: two attempts refused (an error, a short text), the third
\* accepted; one document, of the third provider, is in the collection and
\* the response agrees with it.
C18_Witness ==
    \E r \in DOMAIN pc :
        /\ pc[r] = "done"
        /\ Len(outcomes[r]) = 3
        /\ outcomes[r][1] = Throws
        /\ outcomes[r][2] = Text("", 0, Filler(99))
        /\ Len(writes[r]) = 1
        /\ writes[r][1].modelUsed = models[3]
        /\ writes[r][1].isAiGenerated = TRUE
        /\ Answer(r).json.modelUsed = models[3]
        /\ Answer(r).json.plan = writes[r][1].plan
        /\ Len(db) = 1
        /\ db[1].data = writes[r][1]

\* C19: in the rendered template the range of Phase 3, from ceil(0.7 W) + 1
\* to W - 1, is backward (its start is greater than its end) for every W from
\* 1 to 6 and in order (start <= end) for every W >= 7; W = 4 renders
\* "Week 4-3".  For every W > 2 the range of Phase 2, from 3 to ceil(0.7 W),
\* is in order and ends the week before Phase 3 starts.
C19_PhaseRanges ==
    render.stage = "returned" =>
        LET W == render.durationWeeks
            plan == render.plan
            start3 == CeilingOfSeventyPercent(W) + 1
            end3 == W - 1
            end2 == CeilingOfSeventyPercent(W)
        IN  /\ W >= 1
            /\ Includes(plan, "\nPhase 3: Advanced Application (Week "
                              \o ToString(start3) \o "-" \o ToString(end3) \o ")\n")
            /\ W \in 1..6 => start3 > end3
            /\ W >= 7 => start3 <= end3
            /\ W = 4 => Includes(plan, "(Week 4-3)")
            /\ W > 2 =>
                 /\ Includes(plan, "\nPhase 2: Core Learning (Week 3-"
                                   \o ToString(end2) \o ")\n")
                 /\ 3 <= end2
                 /\ end2 + 1 = start3

\* C19 witness: plans of 6 and of 7 weeks are the turning point; here the
\* plan of 7 weeks was rendered, the first whose Phase 3 is in order
\* ("Week 6-6"), after a Phase 2 of "Week 3-5".
C19_Witness ==
    /\ render.stage = "returned"
    /\ render.durationWeeks = 7
    /\ Includes(render.plan, "Phase 2: Core Learning (Week 3-5)")
    /\ Includes(render.plan, "Phase 3: Advanced Application (Week 6-6)")

=============================================================================
